---- MODULE Spec2Model ----
(***************************************************************************)
(* A model of the Wikipedia pageviews notebook data_aquisition.ipynb:      *)
(* the function request_pageviews_per_article (cell 3), the shared default *)
(* request template ARTICLE_PAGEVIEWS_PARAMS_TEMPLATE (cell 2) and the     *)
(* data acquisition loop (cell 5).                                         *)
(*                                                                         *)
(* Strings that the code inspects character by character (article titles,  *)
(* the encoded title, the request URL) are sequences of one-character      *)
(* strings; strings that the code only copies are TLA+ strings.            *)
(***************************************************************************)
EXTENDS Integers, Sequences, FiniteSets, TLC

(***************************************************************************)
(* Bounds of the model.                                                    *)
(***************************************************************************)
\* longest article title, in characters, passed to a direct call
MaxTitleLen == 2
\* longest list of article titles the loop iterates over
MaxArticles == 2
\* most monthly items in one API response
MaxItems == 2
\* size of one run: the articles of the loop's list, or the direct calls
\* and the characters of their titles, plus the events on the API's side,
\* an event being a monthly item served or a request that fails
MaxWork == 4

\* the characters article titles are made of: a letter, a space, a slash,
\* a percent sign
TitleChars == {"a", " ", "/", "%"}
\* the months (timestamps) and the view counts the API answers with
Timestamps == {"2015070100", "2015080100"}
Views == {1, 2}
\* the titles the loop's input list is drawn from
LoopTitles == {<<>>, <<"a">>, <<"%">>}

(***************************************************************************)
(* Constants of cell 2.                                                    *)
(***************************************************************************)
API_REQUEST_PAGEVIEWS_ENDPOINT ==
    <<"https://wikimedia.org/api/rest_v1/metrics/pageviews", "/">>

AccessTypes == {"desktop", "mobile-web", "mobile-app", "all-access"}

ARTICLE_PAGEVIEWS_PARAMS_TEMPLATE ==
    [project     |-> "en.wikipedia.org",
     access      |-> "desktop",
     agent       |-> "user",
     article     |-> <<>>,
     granularity |-> "monthly",
     start       |-> "2015070100",
     end         |-> "2024093000"]

\* API_REQUEST_PER_ARTICLE_PARAMS.format(**request_template): the path
\* 'per-article/{project}/{access}/{agent}/{article}/{granularity}/{start}/{end}'
\* as a sequence of tokens; every "/" of the URL path is a token of its own,
\* the article field is spliced in character by character.
FormatParams(t) ==
    <<"per-article", "/", t.project, "/", t.access, "/", t.agent, "/">>
    \o t.article
    \o <<"/", t.granularity, "/", t.start, "/", t.end>>

(***************************************************************************)
(* str.replace and urllib.parse.quote.                                     *)
(***************************************************************************)
RECURSIVE Replace(_, _, _)
\* s.replace(old, new) for one-character old and new
Replace(s, old, new) ==
    IF s = <<>> THEN <<>>
    ELSE <<IF Head(s) = old THEN new ELSE Head(s)>> \o Replace(Tail(s), old, new)

\* the characters quote never encodes (letters, digits, '_.-~'), as far as
\* they occur in titles and in percent escapes
AlwaysSafe == {"a", "_", ".", "-", "~", "0", "2", "5", "F"}

\* '%XX' for the byte of an ASCII character
PercentEscape(c) ==
    CASE c = " " -> <<"%", "2", "0">>
      [] c = "%" -> <<"%", "2", "5">>
      [] c = "/" -> <<"%", "2", "F">>

RECURSIVE Quote(_, _)
\* urllib.parse.quote(s, safe): characters that are always safe or in
\* `safe` are kept, every other character becomes its percent escape
Quote(s, safe) ==
    IF s = <<>> THEN <<>>
    ELSE (IF Head(s) \in AlwaysSafe \cup safe
          THEN <<Head(s)>>
          ELSE PercentEscape(Head(s))) \o Quote(Tail(s), safe)

\* a mutation of EncodeTitle: the title is quoted as it is
EncodeTitleQuoteOnly(title) == Quote(title, {"/"})

\* urllib.parse.quote(title.replace(' ', '_')): quote is called with its
\* default safe='/'
EncodeTitle(title) == Quote(Replace(title, " ", "_"), {"/"})

(***************************************************************************)
(* Arguments and results of request_pageviews_per_article.                 *)
(***************************************************************************)
\* article_title=None (the default) and article_title=<string>
NoTitle == [given |-> FALSE, title |-> <<>>]
Title(s) == [given |-> TRUE, title |-> s]

\* Python truthiness of the article_title argument
Truthy(arg) == arg.given /\ arg.title # <<>>

\* one monthly record of a response
Items == [timestamp : Timestamps, views : Views]

RECURSIVE SeqsUpTo(_, _)
SeqsUpTo(S, n) ==
    IF n = 0 THEN {<<>>}
    ELSE LET shorter == SeqsUpTo(S, n - 1)
         IN  shorter \cup {Append(s, x) : s \in {q \in shorter : Len(q) = n - 1}, x \in S}

\* the API answers with at most one item for a month
DistinctMonths(items) ==
    \A j, k \in 1..Len(items) : j # k => items[j].timestamp # items[k].timestamp

ItemLists(n) == {s \in SeqsUpTo(Items, n) : DistinctMonths(s)}

\* the value request_pageviews_per_article returns: None, or the parsed JSON
\* body, which has an 'items' list or has none (the API's error body)
None == [null |-> TRUE, has_items |-> FALSE, items |-> <<>>]
Body(items) == [null |-> FALSE, has_items |-> TRUE, items |-> items]
BodyWithoutItems == [null |-> FALSE, has_items |-> FALSE, items |-> <<>>]

\* what requests.get(...) followed by response.json() can do: return a parsed
\* body, raise in requests.get, raise in response.json()
HttpOutcomes(n) ==
    {[kind |-> "json", body |-> Body(s)] : s \in ItemLists(n)}
    \cup {[kind |-> "json", body |-> BodyWithoutItems],
          [kind |-> "network_error", body |-> None],
          [kind |-> "not_json", body |-> None]}


\* no request was made, so nothing came back
NoRequest == [kind |-> "none", body |-> None]

(***************************************************************************)
(* request_pageviews_per_article (cell 3).                                 *)
(***************************************************************************)
\* a mutation of Prepare: the access type is stored under the wrong key
PrepareWrongKey(arg, access_type, tmpl) ==
    LET t1 == IF Truthy(arg) THEN [tmpl EXCEPT !.article = arg.title] ELSE tmpl
    IN  IF t1.article = <<>>
        THEN [raised |-> TRUE, template |-> t1, request_url |-> <<>>]
        ELSE LET t2 == [t1 EXCEPT !.agent = access_type]
                 t3 == [t2 EXCEPT !.article = EncodeTitle(t2.article)]
             IN  [raised      |-> FALSE,
                  template    |-> t3,
                  request_url |-> API_REQUEST_PAGEVIEWS_ENDPOINT \o FormatParams(t3)]

\* The function up to the request: it writes the title (when one is given),
\* the access type and then the ENCODED title into request_template, which is
\* the dictionary the caller passed or, by default, the shared
\* ARTICLE_PAGEVIEWS_PARAMS_TEMPLATE itself; it raises when the template
\* holds no article.
Prepare(arg, access_type, tmpl) ==
    LET t1 == IF Truthy(arg) THEN [tmpl EXCEPT !.article = arg.title] ELSE tmpl
    IN  IF t1.article = <<>>
        THEN [raised |-> TRUE, template |-> t1, request_url |-> <<>>]
        ELSE LET t2 == [t1 EXCEPT !.access = access_type]
                 t3 == [t2 EXCEPT !.article = EncodeTitle(t2.article)]
             IN  [raised      |-> FALSE,
                  template    |-> t3,
                  request_url |-> API_REQUEST_PAGEVIEWS_ENDPOINT \o FormatParams(t3)]

\* a line of standard output
Line(kind, what, article) == [kind |-> kind, what |-> what, article |-> article]
\* print(e)
ErrorLine(e) == Line("error", e, <<>>)

\* a mutation of Perform: only the failure of requests.get is caught
PerformCatchesGetOnly(o) ==
    CASE o.kind = "json" ->
            [raised |-> FALSE, json_response |-> o.body, printed |-> <<>>]
      [] o.kind = "network_error" ->
            [raised |-> FALSE, json_response |-> None, printed |-> <<ErrorLine(o.kind)>>]
      [] OTHER ->
            [raised |-> TRUE, json_response |-> None, printed |-> <<>>]

\* The try block: the parsed body when requests.get and response.json()
\* succeed; on any exception the exception is printed and None is returned.
Perform(o) ==
    IF o.kind = "json"
    THEN [raised |-> FALSE, json_response |-> o.body, printed |-> <<>>]
    ELSE [raised |-> FALSE, json_response |-> None, printed |-> <<ErrorLine(o.kind)>>]

(***************************************************************************)
(* The data acquisition loop (cell 5).                                     *)
(***************************************************************************)
\* `x and 'items' in x`
HasItems(response) == ~response.null /\ response.has_items

\* the dictionary appended for one month
MonthData(article, timestamp, views) ==
    [article_title |-> article, timestamp |-> timestamp, views |-> views]

\* a mutation of PassThrough: the first month of the response is skipped
PassThroughSkipsFirst(article, items) ==
    [k \in 1..(Len(items) - 1) |->
        MonthData(article, items[k + 1].timestamp, items[k + 1].views)]

\* the records appended for a desktop or an all-access response
PassThrough(article, items) ==
    [k \in 1..Len(items) |-> MonthData(article, items[k].timestamp, items[k].views)]

Min(a, b) == IF a < b THEN a ELSE b

RECURSIVE MergeFrom(_, _, _, _)
\* the body of `for web_record, app_record in zip(web, app)` from position k
MergeFrom(article, web, app, k) ==
    IF k > Min(Len(web), Len(app)) THEN <<>>
    ELSE (IF web[k].timestamp = app[k].timestamp
          THEN <<MonthData(article, web[k].timestamp, web[k].views + app[k].views)>>
          ELSE <<>>) \o MergeFrom(article, web, app, k + 1)

\* a mutation of MergeMobile: zip pairs are summed whatever their timestamps
MergeMobileUnchecked(article, web, app) ==
    [k \in 1..Min(Len(web), Len(app)) |->
        MonthData(article, web[k].timestamp, web[k].views + app[k].views)]

\* the records appended for a pair of mobile-web and mobile-app item lists
MergeMobile(article, web, app) == MergeFrom(article, web, app, 1)

\* the "No ... data found for {article}" messages
NoDataLine(what, article) == Line("no data found", what, article)

\* a mutation of NoDataLines: nothing is printed for a failed response
NoDataLinesSilent(what, article) == <<>>

\* what the else branch of an access type prints
NoDataLines(what, article) == <<NoDataLine(what, article)>>

\* a mutation of NextFetch: the mobile fetches are left out
NextFetchSkipsMobile(access) ==
    CASE access = "desktop"    -> "all-access"
      [] access = "mobile-web" -> "mobile-app"
      [] access = "mobile-app" -> "all-access"
      [] access = "all-access" -> "desktop"

\* the order of the four requests of one iteration; after all-access the
\* loop goes on with the desktop request of the next article
NextFetch(access) ==
    CASE access = "desktop"    -> "mobile-web"
      [] access = "mobile-web" -> "mobile-app"
      [] access = "mobile-app" -> "all-access"
      [] access = "all-access" -> "desktop"


(***************************************************************************)
(* The state.                                                              *)
(***************************************************************************)
VARIABLES
    template,              \* the dictionary ARTICLE_PAGEVIEWS_PARAMS_TEMPLATE
    http_log,              \* the URLs of the GET requests issued, in order
    stdout,                \* the lines printed, in order
    article_titles,        \* the loop's input list
    i,                     \* the loop's position in article_titles (from 1)
    pc,                    \* the request the loop makes next, "done", "raised"
    desktop_dict,          \* the three accumulators
    mobile_dict,
    cumulative_dict,
    desktop_pageviews,     \* the loop's four response variables
    mobile_web_pageviews,
    mobile_app_pageviews,
    all_access_pageviews,
    served,                \* the size of the run so far, but for the loop's list
    calls,                 \* the number of direct calls made
    last_call,             \* the arguments of the last direct call and what
                           \* its request came back with
    ret                    \* how the last direct call ended

shared == <<template, http_log, stdout>>
accumulators == <<desktop_dict, mobile_dict, cumulative_dict>>
responses == <<desktop_pageviews, mobile_web_pageviews, mobile_app_pageviews,
               all_access_pageviews>>
direct == <<calls, last_call, ret>>
vars == <<shared, article_titles, i, pc, accumulators, responses, served, direct>>

\* the state after cells 1 to 4, before any call and before the loop
InitShared ==
    /\ template = ARTICLE_PAGEVIEWS_PARAMS_TEMPLATE
    /\ http_log = <<>>
    /\ stdout = <<>>
    /\ desktop_dict = <<>>
    /\ mobile_dict = <<>>
    /\ cumulative_dict = <<>>
    /\ desktop_pageviews = None
    /\ mobile_web_pageviews = None
    /\ mobile_app_pageviews = None
    /\ all_access_pageviews = None
    /\ served = 0
    /\ calls = 0
    /\ last_call = [arg |-> NoTitle, access_type |-> "desktop", outcome |-> NoRequest]
    /\ ret = [raised |-> FALSE, value |-> None]

\* cell 5 is run on a list of titles
Init ==
    /\ InitShared
    /\ article_titles \in SeqsUpTo(LoopTitles, MaxArticles)
    /\ i = 1
    /\ pc = IF article_titles = <<>> THEN "done" ELSE "desktop"

\* the events of a response: its items, or its failure
Cost(o) == IF o.kind = "json" /\ o.body.has_items THEN Len(o.body.items) ELSE 1

\* the responses the API may still give when `used` of the run is used up
Allowed(used) == {o \in HttpOutcomes(MaxItems) : used + Cost(o) <= MaxWork}

\* what the run of the loop has used up
LoopWork == Len(article_titles) + served

\* where the loop goes after the request for `access`
Advance(access) ==
    IF access = "all-access" /\ i = Len(article_titles)
    THEN pc' = "done" /\ i' = i
    ELSE /\ pc' = NextFetch(access)
         /\ i' = IF access = "all-access" THEN i + 1 ELSE i

\* an exception leaves request_pageviews_per_article and ends the cell
Abort(call) ==
    /\ pc' = "raised"
    /\ template' = call.template
    /\ UNCHANGED <<http_log, stdout, article_titles, i, accumulators, responses,
                   served, direct>>

\* lines 266-279: the desktop request and its records
FetchDesktop ==
    /\ pc = "desktop"
    /\ LET article == article_titles[i]
           call == Prepare(Title(article), "desktop", template)
       IN  IF call.raised THEN Abort(call)
           ELSE \E o \in Allowed(LoopWork) :
                LET r == Perform(o) IN
                IF r.raised THEN Abort(call)
                ELSE /\ template' = call.template
                     /\ http_log' = Append(http_log, call.request_url)
                     /\ served' = served + Cost(o)
                     /\ desktop_pageviews' = r.json_response
                     /\ IF HasItems(r.json_response)
                        THEN /\ desktop_dict' = desktop_dict
                                    \o PassThrough(article, r.json_response.items)
                             /\ stdout' = stdout \o r.printed
                        ELSE /\ desktop_dict' = desktop_dict
                             /\ stdout' = stdout \o r.printed
                                    \o NoDataLines("desktop", article)
                     /\ Advance("desktop")
                     /\ UNCHANGED <<article_titles, mobile_dict, cumulative_dict,
                                    mobile_web_pageviews, mobile_app_pageviews,
                                    all_access_pageviews, direct>>

\* line 282: the mobile-web request
FetchMobileWeb ==
    /\ pc = "mobile-web"
    /\ LET article == article_titles[i]
           call == Prepare(Title(article), "mobile-web", template)
       IN  IF call.raised THEN Abort(call)
           ELSE \E o \in Allowed(LoopWork) :
                LET r == Perform(o) IN
                IF r.raised THEN Abort(call)
                ELSE /\ template' = call.template
                     /\ http_log' = Append(http_log, call.request_url)
                     /\ served' = served + Cost(o)
                     /\ mobile_web_pageviews' = r.json_response
                     /\ stdout' = stdout \o r.printed
                     /\ Advance("mobile-web")
                     /\ UNCHANGED <<article_titles, accumulators, desktop_pageviews,
                                    mobile_app_pageviews, all_access_pageviews,
                                    direct>>

\* lines 283-297: the mobile-app request and the merged mobile records
FetchMobileApp ==
    /\ pc = "mobile-app"
    /\ LET article == article_titles[i]
           call == Prepare(Title(article), "mobile-app", template)
       IN  IF call.raised THEN Abort(call)
           ELSE \E o \in Allowed(LoopWork) :
                LET r == Perform(o) IN
                IF r.raised THEN Abort(call)
                ELSE /\ template' = call.template
                     /\ http_log' = Append(http_log, call.request_url)
                     /\ served' = served + Cost(o)
                     /\ mobile_app_pageviews' = r.json_response
                     /\ IF HasItems(mobile_web_pageviews) /\ HasItems(r.json_response)
                        THEN /\ mobile_dict' = mobile_dict
                                    \o MergeMobile(article, mobile_web_pageviews.items,
                                                   r.json_response.items)
                             /\ stdout' = stdout \o r.printed
                        ELSE /\ mobile_dict' = mobile_dict
                             /\ stdout' = stdout \o r.printed
                                    \o NoDataLines("mobile-web or mobile-app", article)
                     /\ Advance("mobile-app")
                     /\ UNCHANGED <<article_titles, desktop_dict, cumulative_dict,
                                    desktop_pageviews, mobile_web_pageviews,
                                    all_access_pageviews, direct>>

\* lines 300-312: the all-access request and its records
FetchAllAccess ==
    /\ pc = "all-access"
    /\ LET article == article_titles[i]
           call == Prepare(Title(article), "all-access", template)
       IN  IF call.raised THEN Abort(call)
           ELSE \E o \in Allowed(LoopWork) :
                LET r == Perform(o) IN
                IF r.raised THEN Abort(call)
                ELSE /\ template' = call.template
                     /\ http_log' = Append(http_log, call.request_url)
                     /\ served' = served + Cost(o)
                     /\ all_access_pageviews' = r.json_response
                     /\ IF HasItems(r.json_response)
                        THEN /\ cumulative_dict' = cumulative_dict
                                    \o PassThrough(article, r.json_response.items)
                             /\ stdout' = stdout \o r.printed
                        ELSE /\ cumulative_dict' = cumulative_dict
                             /\ stdout' = stdout \o r.printed
                                    \o NoDataLines("all-access", article)
                     /\ Advance("all-access")
                     /\ UNCHANGED <<article_titles, desktop_dict, mobile_dict,
                                    desktop_pageviews, mobile_web_pageviews,
                                    mobile_app_pageviews, direct>>

Next == FetchDesktop \/ FetchMobileWeb \/ FetchMobileApp \/ FetchAllAccess

\* the data acquisition loop, run once on a list of titles
Spec == Init /\ [][Next]_vars


(***************************************************************************)
(* Direct calls of request_pageviews_per_article with the default          *)
(* request_template, one after the other.                                  *)
(***************************************************************************)
\* the titles of direct calls
Titles == SeqsUpTo(TitleChars, MaxTitleLen)

\* article_title is None (or left out), or a string
Arguments == {NoTitle} \cup {Title(t) : t \in Titles}

\* the state before any call; cell 5 is not run
InitCalls ==
    /\ InitShared
    /\ article_titles = <<>>
    /\ i = 1
    /\ pc = "done"

\* request_pageviews_per_article(article_title=arg, access_type=access_type)
Call ==
    \E arg \in Arguments, access_type \in AccessTypes :
        LET used == served + 1 + Len(arg.title)
            call == Prepare(arg, access_type, template)
        IN  /\ used <= MaxWork
            /\ calls' = calls + 1
            /\ template' = call.template
            /\ IF call.raised
               THEN /\ ret' = [raised |-> TRUE, value |-> None]
                    /\ last_call' = [arg |-> arg, access_type |-> access_type,
                                     outcome |-> NoRequest]
                    /\ served' = used
                    /\ UNCHANGED <<http_log, stdout>>
               ELSE \E o \in Allowed(used) :
                    LET r == Perform(o) IN
                    /\ http_log' = Append(http_log, call.request_url)
                    /\ stdout' = stdout \o r.printed
                    /\ ret' = [raised |-> r.raised, value |-> r.json_response]
                    /\ last_call' = [arg |-> arg, access_type |-> access_type,
                                     outcome |-> o]
                    /\ served' = used + Cost(o)
            /\ UNCHANGED <<article_titles, i, pc, accumulators, responses>>

NextCalls == Call

\* a caller of request_pageviews_per_article
SpecCalls == InitCalls /\ [][NextCalls]_vars


(***************************************************************************)
(* Vocabulary of the properties.                                           *)
(***************************************************************************)
Range(s) == {s[k] : k \in 1..Len(s)}
\* how often x occurs in s
Count(s, x) == Cardinality({k \in 1..Len(s) : s[k] = x})
\* how often the sequence pat occurs in s
Occurrences(s, pat) ==
    Cardinality({k \in 1..Len(s) : k + Len(pat) - 1 <= Len(s)
                                   /\ SubSeq(s, k, k + Len(pat) - 1) = pat})
\* what was appended to old to get new
Appended(new, old) == SubSeq(new, Len(old) + 1, Len(new))
Extends(new, old) == Len(new) >= Len(old) /\ SubSeq(new, 1, Len(old)) = old

\* the URL of the request template for an encoded article and an access type
UrlFor(encoded, access) ==
    API_REQUEST_PAGEVIEWS_ENDPOINT
    \o FormatParams([ARTICLE_PAGEVIEWS_PARAMS_TEMPLATE EXCEPT
                        !.article = encoded, !.access = access])
\* the "/" of a URL whose article segment holds none
PathSlashes == Count(UrlFor(<<"a">>, "desktop"), "/")
\* what stands in a URL where the format string has {article}
ArticleField(url) ==
    SubSeq(url, Len(UrlFor(<<>>, "desktop")) - 5, Len(url) - 6)

\* a direct call has just been made / is made in this step
Called == calls > 0
CallStep == calls' = calls + 1
LastUrl == http_log[Len(http_log)]

(***************************************************************************)
(* C2: for every article title containing a "/", the article path segment  *)
(* of the request URL holds no literal "/" coming from the title: the URL  *)
(* has the "/" of the path template and no more, and each "/" of the title *)
(* appears as %2F.                                                         *)
(***************************************************************************)
C2_SlashIsPercentEncoded ==
    (Called /\ ~ret.raised /\ Truthy(last_call.arg)
            /\ "/" \in Range(last_call.arg.title))
    => /\ Count(LastUrl, "/") = PathSlashes
       /\ Occurrences(LastUrl, <<"%", "2", "F">>) = Count(last_call.arg.title, "/")

(***************************************************************************)
(* C9: for every article title containing a space, each space appears as   *)
(* an underscore in the article segment of the request URL (the segment    *)
(* has one underscore for each space and each underscore of the title),    *)
(* and the segment holds neither a literal space nor %20.                  *)
(***************************************************************************)
C9_SpaceBecomesUnderscore ==
    (Called /\ ~ret.raised /\ Truthy(last_call.arg)
            /\ " " \in Range(last_call.arg.title))
    => LET segment == ArticleField(LastUrl)
           title == last_call.arg.title
       IN  /\ Count(segment, "_") = Count(title, " ") + Count(title, "_")
           /\ Count(segment, " ") = 0
           /\ Occurrences(segment, <<"%", "2", "0">>) = 0
           /\ Count(LastUrl, " ") = 0

C9_Witness ==
    /\ Called /\ ~ret.raised
    /\ last_call.arg = Title(<<"a", " ">>)
    /\ ArticleField(LastUrl) = <<"a", "_">>

(***************************************************************************)
(* C6: a call whose request succeeds returns the parsed JSON body; a call  *)
(* whose request raises (network failure, non-JSON body) returns None,     *)
(* prints the error, and lets no exception reach the caller.               *)
(***************************************************************************)
C6_BodyOrNone ==
    [][(CallStep /\ last_call'.outcome.kind # "none")
       => /\ ~ret'.raised
          /\ last_call'.outcome.kind = "json"
                => ret'.value = last_call'.outcome.body /\ stdout' = stdout
          /\ last_call'.outcome.kind \in {"network_error", "not_json"}
                => /\ ret'.value = None
                   /\ stdout' = Append(stdout, ErrorLine(last_call'.outcome.kind))]_vars

C6_Witness ==
    /\ calls >= 2
    /\ last_call.outcome.kind = "not_json"
    /\ ret = [raised |-> FALSE, value |-> None]
    /\ stdout = <<ErrorLine("not_json")>>
    /\ Len(http_log) = 2

(***************************************************************************)
(* C7: every call with a missing (None) or empty article title, at any     *)
(* point of a sequence of calls with the default request template, raises  *)
(* "Must supply an article title" and issues no HTTP request.              *)
(***************************************************************************)
C7_MissingTitleRaises ==
    [][(CallStep /\ ~Truthy(last_call'.arg))
       => ret'.raised /\ http_log' = http_log]_vars

(***************************************************************************)
(* C8, as stated: a call of request_pageviews_per_article leaves every     *)
(* shared value but the accumulators, the default request template         *)
(* included, unchanged.                                                    *)
(***************************************************************************)
C8_TemplateUnchanged ==
    [][CallStep => template' = template /\ UNCHANGED accumulators]_vars

\* the fields of the template a call never writes
FixedFields == {"project", "agent", "granularity", "start", "end"}

(***************************************************************************)
(* C8, amended: a call of request_pageviews_per_article leaves the three   *)
(* accumulators and the template's project, agent, granularity, start and  *)
(* end unchanged; it writes the template's article and access fields: a    *)
(* call that makes its request leaves the access type and the encoded      *)
(* title there, a call that raises leaves both as they were.               *)
(***************************************************************************)
C8_CallWritesArticleAndAccessOnly ==
    [][CallStep
       => /\ UNCHANGED accumulators
          /\ \A f \in FixedFields : template'[f] = template[f]
          /\ ~ret'.raised
                => /\ template'.access = last_call'.access_type
                   /\ template'.article = ArticleField(http_log'[Len(http_log')])
          /\ ret'.raised => template' = template]_vars

C8_Witness ==
    /\ Called /\ ~ret.raised
    /\ template.article # ARTICLE_PAGEVIEWS_PARAMS_TEMPLATE.article
    /\ template.access # ARTICLE_PAGEVIEWS_PARAMS_TEMPLATE.access


(***************************************************************************)
(* Vocabulary of the loop's properties: the steps of one iteration.        *)
(***************************************************************************)
\* the request for an access type was made and answered in this step
DesktopStep == pc = "desktop" /\ pc' = "mobile-web"
MobileWebStep == pc = "mobile-web" /\ pc' = "mobile-app"
MobileAppStep == pc = "mobile-app" /\ pc' = "all-access"
AllAccessStep == pc = "all-access" /\ pc' \in {"desktop", "done"}

\* the months of a list of items
Months(items) == {items[k].timestamp : k \in 1..Len(items)}
\* the "no data found" notices among printed lines
NoticeCount(out) ==
    Cardinality({k \in 1..Len(out) : out[k].kind = "no data found"})
\* exactly one notice was printed in this step, and it is this one
OneNotice(what, article) ==
    /\ NoticeCount(stdout') = NoticeCount(stdout) + 1
    /\ Extends(stdout', stdout)
    /\ stdout'[Len(stdout')] = [kind |-> "no data found", what |-> what,
                                article |-> article]

(***************************************************************************)
(* C1: when the mobile-web and the mobile-app response of an article both  *)
(* carry an items list, every record appended to the mobile output has the *)
(* views of the mobile-web item plus the views of the mobile-app item with *)
(* the record's timestamp, and a timestamp that occurs in only one of the  *)
(* two responses does not appear in the records appended for the article.  *)
(***************************************************************************)
C1_MergedViewsAreSums ==
    [][(MobileAppStep /\ HasItems(mobile_web_pageviews)
                      /\ HasItems(mobile_app_pageviews'))
       => LET web == mobile_web_pageviews.items
              app == mobile_app_pageviews'.items
              new == Appended(mobile_dict', mobile_dict)
          IN  /\ Extends(mobile_dict', mobile_dict)
              /\ \A k \in 1..Len(new) :
                    /\ new[k].article_title = article_titles[i]
                    /\ \E w \in Range(web), a \in Range(app) :
                          /\ w.timestamp = new[k].timestamp
                          /\ a.timestamp = new[k].timestamp
                          /\ new[k].views = w.views + a.views
              /\ \A k \in 1..Len(new) :
                    new[k].timestamp \in Months(web) \cap Months(app)]_vars

C1_Witness ==
    /\ pc = "all-access"
    /\ HasItems(mobile_web_pageviews) /\ HasItems(mobile_app_pageviews)
    /\ Len(mobile_web_pageviews.items) = 2
    /\ Months(mobile_app_pageviews.items) # Months(mobile_web_pageviews.items)
    /\ Len(mobile_dict) = 1
    /\ mobile_dict[1].views = 3

(***************************************************************************)
(* C10: when the mobile-web and the mobile-app response of an article both *)
(* carry an items list, every timestamp that occurs in both lists yields   *)
(* exactly one record in the mobile output for the article, whatever its   *)
(* positions in the two lists.                                             *)
(***************************************************************************)
C10_EveryCommonMonthIsMerged ==
    [][(MobileAppStep /\ HasItems(mobile_web_pageviews)
                      /\ HasItems(mobile_app_pageviews'))
       => LET web == mobile_web_pageviews.items
              app == mobile_app_pageviews'.items
              new == Appended(mobile_dict', mobile_dict)
          IN  \A ts \in Months(web) \cap Months(app) :
                 Cardinality({k \in 1..Len(new) : new[k].timestamp = ts}) = 1]_vars

(***************************************************************************)
(* C5: a desktop response with N items adds exactly N entries to the       *)
(* desktop output, the k-th with the article's title and the timestamp and *)
(* views of the k-th item; the same holds of the all-access response and   *)
(* the cumulative output.                                                  *)
(***************************************************************************)
C5_PassThrough ==
    [][/\ (DesktopStep /\ HasItems(desktop_pageviews'))
          => LET items == desktop_pageviews'.items IN
             /\ Len(desktop_dict') = Len(desktop_dict) + Len(items)
             /\ Extends(desktop_dict', desktop_dict)
             /\ \A k \in 1..Len(items) :
                   desktop_dict'[Len(desktop_dict) + k] =
                       [article_title |-> article_titles[i],
                        timestamp |-> items[k].timestamp,
                        views |-> items[k].views]
       /\ (AllAccessStep /\ HasItems(all_access_pageviews'))
          => LET items == all_access_pageviews'.items IN
             /\ Len(cumulative_dict') = Len(cumulative_dict) + Len(items)
             /\ Extends(cumulative_dict', cumulative_dict)
             /\ \A k \in 1..Len(items) :
                   cumulative_dict'[Len(cumulative_dict) + k] =
                       [article_title |-> article_titles[i],
                        timestamp |-> items[k].timestamp,
                        views |-> items[k].views]]_vars

C5_Witness ==
    /\ pc = "done"
    /\ HasItems(desktop_pageviews) /\ Len(desktop_pageviews.items) = 2
    /\ HasItems(all_access_pageviews) /\ Len(all_access_pageviews.items) = 1
    /\ Len(desktop_dict) = 2 /\ Len(cumulative_dict) = 1
    /\ desktop_dict[1].views # desktop_dict[2].views

(***************************************************************************)
(* C3: a null result or a body without items for an access type of an      *)
(* article appends nothing to the corresponding output and prints exactly  *)
(* one "no data found" notice for it: the desktop and the all-access       *)
(* notice in the step of the request, the mobile notice, one for           *)
(* mobile-web and mobile-app together, once both responses are there.      *)
(***************************************************************************)
C3_FailedResponseOneNotice ==
    [][/\ (DesktopStep /\ ~HasItems(desktop_pageviews'))
          => desktop_dict' = desktop_dict /\ OneNotice("desktop", article_titles[i])
       /\ MobileWebStep
          => mobile_dict' = mobile_dict /\ NoticeCount(stdout') = NoticeCount(stdout)
       /\ (MobileAppStep /\ (~HasItems(mobile_web_pageviews)
                             \/ ~HasItems(mobile_app_pageviews')))
          => /\ mobile_dict' = mobile_dict
             /\ OneNotice("mobile-web or mobile-app", article_titles[i])
       /\ (AllAccessStep /\ ~HasItems(all_access_pageviews'))
          => /\ cumulative_dict' = cumulative_dict
             /\ OneNotice("all-access", article_titles[i])]_vars

C3_Witness ==
    /\ pc = "done"
    /\ desktop_pageviews = None
    /\ mobile_web_pageviews = BodyWithoutItems
    /\ HasItems(mobile_app_pageviews)
    /\ all_access_pageviews = None
    /\ NoticeCount(stdout) = 3
    /\ desktop_dict = <<>> /\ mobile_dict = <<>> /\ cumulative_dict = <<>>

(***************************************************************************)
(* C4: the requests of a run.                                              *)
(***************************************************************************)
FetchOrder == <<"desktop", "mobile-web", "mobile-app", "all-access">>
\* the requests made before the one the loop makes next
FetchesBefore(access) == CHOOSE k \in 0..3 : FetchOrder[k + 1] = access
\* the k-th request of a run is the request for this article and access type
ArticleOfFetch(k) == article_titles[((k - 1) \div 4) + 1]
AccessOfFetch(k) == FetchOrder[((k - 1) % 4) + 1]
\* the access type a URL asks for
AccessOf(url) == url[Len(API_REQUEST_PAGEVIEWS_ENDPOINT) + 5]

\* the loop has not raised, has made four requests for each article before
\* article i and those before pc for article i, in the order desktop,
\* mobile-web, mobile-app, all-access, and can go on unless it is done
RunsInOrder ==
    /\ pc # "raised"
    /\ pc # "done" => /\ Len(http_log) = 4 * (i - 1) + FetchesBefore(pc)
                      /\ ENABLED Next
    /\ pc = "done" => Len(http_log) = 4 * Len(article_titles)
    /\ \A k \in 1..Len(http_log) : AccessOf(http_log[k]) = AccessOfFetch(k)

(***************************************************************************)
(* C4, as stated: for every list of article titles and every combination   *)
(* of fetch outcomes the loop runs to completion and issues, for each      *)
(* article in input order, exactly four fetches in the order desktop,      *)
(* mobile-web, mobile-app, all-access.                                     *)
(***************************************************************************)
C4_EveryListRunsToCompletion == RunsInOrder

(***************************************************************************)
(* C4, amended: for every list of NON-EMPTY article titles and every       *)
(* combination of fetch outcomes the loop runs to completion and issues,   *)
(* for each article in input order, exactly four fetches, for that         *)
(* article's encoded title, in the order desktop, mobile-web, mobile-app,  *)
(* all-access.                                                             *)
(***************************************************************************)
C4_NonEmptyTitlesRunToCompletion ==
    (\A n \in 1..Len(article_titles) : article_titles[n] # <<>>)
    => /\ RunsInOrder
       /\ \A k \in 1..Len(http_log) :
             http_log[k] = UrlFor(EncodeTitle(ArticleOfFetch(k)), AccessOfFetch(k))

C4_Witness ==
    /\ pc = "done"
    /\ Len(article_titles) = 2
    /\ \A n \in 1..2 : article_titles[n] # <<>>
    /\ Len(http_log) = 8
    /\ Len(stdout) = 4
    /\ stdout[1].kind = "error" /\ stdout[2].kind = "no data found"
    /\ stdout[2].article = article_titles[1]
    /\ stdout[4].article = article_titles[1]

(***************************************************************************)
(* C11: every record of the desktop, mobile and cumulative outputs whose   *)
(* article_title is A was built from a response to a request whose URL     *)
(* article segment is the encoding of A, and not of an article processed   *)
(* earlier: when a step appends records, the request (for the mobile       *)
(* records, both requests) it built them from asked for the encoding of    *)
(* each record's article_title.                                            *)
(***************************************************************************)
\* the requests made in and before this step, the last one first
UrlBack(n) == http_log'[Len(http_log') - n]
\* every record appended to an output is labelled with the article asked for
LabelledAsRequested(new, old, url) ==
    \A r \in Range(Appended(new, old)) :
        ArticleField(url) = EncodeTitle(r.article_title)

C11_LabelProvenance ==
    [][/\ DesktopStep
          => LabelledAsRequested(desktop_dict', desktop_dict, UrlBack(0))
       /\ MobileAppStep
          => /\ LabelledAsRequested(mobile_dict', mobile_dict, UrlBack(0))
             /\ LabelledAsRequested(mobile_dict', mobile_dict, UrlBack(1))
       /\ AllAccessStep
          => LabelledAsRequested(cumulative_dict', cumulative_dict, UrlBack(0))]_vars

====
